---- MODULE Spec2Model ----
(***************************************************************************)
(* Model of server/app.py: the Flask handler get_response, the two-node    *)
(* LangGraph workflow retrieve -> generate -> END, build_pdf_index and     *)
(* get_s3_index.  Two request threads share the snapshot directory         *)
(* STORAGE_DIR; everything else is request-local.  Text is a sequence of   *)
(* tokens, so the empty string is <<>> and concatenation is \o.            *)
(* Library calls (S3Reader, SimpleDirectoryReader, VectorStoreIndex, the   *)
(* query engine, llm.complete, rmtree) return or raise nondeterministically.*)
(***************************************************************************)
EXTENDS Integers, Sequences, FiniteSets, TLC

\* ---------------------------------------------------------------- bounds
MaxPdfs == 2
MaxFetch == 3

\* ------------------------------------------------------------ input sets
Threads == {"t1", "t2"}
Workers == {"t1"}

NoQuestion == "<missing>"
Questions == {NoQuestion, "", "What is RAG?"}

PdfFile == [name : {"paper.pdf"}, data : {"b64ok", "b64bad"}]
PdfLists == UNION {[1..n -> PdfFile] : n \in 0..MaxPdfs}

\* use_s3 as sent by the caller: key absent, JSON null, true or false
UseS3Values == {"absent", "null", "true", "false"}

RequestJson ==
    {d \in [question : Questions, has_pdf_files : BOOLEAN,
            pdf_files : PdfLists, use_s3 : UseS3Values] :
        ~d.has_pdf_files => d.pdf_files = <<>>}

\* the bodies used when two requests run concurrently: no pdf_files key
RaceRequests == {d \in RequestJson : ~d.has_pdf_files}

Results == {<<>>, <<"snippet">>}
Completions == {"answer-1", "answer-2"}

\* ------------------------------------------------------- pure operators
PyBool(b) == IF b THEN "true" ELSE "false"

\* Python truthiness of a use_s3 value (None and False are falsy)
Truthy(v) == v = "true"

\* bool(pdf_files)
HasUploads(files) == Len(files) > 0

\* `not user_question`
QuestionMissingNoneOnly(q) == q = NoQuestion
QuestionMissing(q) == q = NoQuestion \/ q = ""

UseS3AlwaysTrue(d) == IF d.use_s3 # "absent" THEN d.use_s3 ELSE "true"
\* data.get("use_s3", not bool(pdf_files))
UseS3Flag(d) ==
    IF d.use_s3 # "absent" THEN d.use_s3 ELSE PyBool(~HasUploads(d.pdf_files))

Sentinel == <<"No context available.">>
UploadLabel == "[Uploaded PDFs]"
S3Label == "[S3 Documents]"

PrependFragment(ctxs, label, result) == <<(<<label, "\n">> \o result)>> \o ctxs
AppendIfNonEmpty(ctxs, label, result) ==
    IF result = <<>> THEN ctxs ELSE Append(ctxs, <<label, "\n">> \o result)
\* contexts.append(f"[label]\n{result}")
AppendFragment(ctxs, label, result) == Append(ctxs, <<label, "\n">> \o result)

RECURSIVE Join(_, _)
\* sep.join(parts)
Join(parts, sep) ==
    IF parts = <<>> THEN <<>>
    ELSE IF Len(parts) = 1 THEN parts[1]
    ELSE parts[1] \o sep \o Join(Tail(parts), sep)

JoinNoSentinel(ctxs) == Join(ctxs, <<"\n\n">>)
\* "\n\n".join(contexts) if contexts else "No context available."
JoinContexts(ctxs) == IF ctxs # <<>> THEN Join(ctxs, <<"\n\n">>) ELSE Sentinel

RECURSIVE SkipBadFrom(_, _, _)
SkipBadFrom(files, i, openFaultAt) ==
    IF i > Len(files) THEN [written |-> 0, raised |-> "none"]
    ELSE IF openFaultAt = i THEN [written |-> 0, raised |-> "write"]
    ELSE LET rest == SkipBadFrom(files, i + 1, openFaultAt)
         IN [written |-> rest.written
                          + (IF files[i].data = "b64bad" THEN 0 ELSE 1),
             raised |-> rest.raised]

RECURSIVE WriteFrom(_, _, _)
\* the for loop of build_pdf_index from file i on: open, decode, write
WriteFrom(files, i, openFaultAt) ==
    IF i > Len(files) THEN [written |-> 0, raised |-> "none"]
    ELSE IF openFaultAt = i THEN [written |-> 0, raised |-> "write"]
    ELSE IF files[i].data = "b64bad" THEN [written |-> 0, raised |-> "decode"]
    ELSE LET rest == WriteFrom(files, i + 1, openFaultAt)
         IN [written |-> rest.written + 1, raised |-> rest.raised]

WriteFilesSkipBad(files, openFaultAt) == SkipBadFrom(files, 1, openFaultAt)
WriteFiles(files, openFaultAt) == WriteFrom(files, 1, openFaultAt)

NoTmp == [created |-> 0, rmtree |-> 0, rmFailed |-> FALSE, exists |-> FALSE]

BuildFaults == {"none", "load", "index"}

build_pdf_index_no_finally(files, openFaultAt, fault, rmOk) ==
    LET w == WriteFiles(files, openFaultAt)
        raised == IF w.raised # "none" THEN w.raised ELSE fault
    IN [raised |-> raised, written |-> w.written,
        tmp |-> IF raised = "none"
                THEN [created |-> 1, rmtree |-> 1, rmFailed |-> ~rmOk,
                      exists |-> ~rmOk]
                ELSE [created |-> 1, rmtree |-> 0, rmFailed |-> FALSE,
                      exists |-> TRUE]]
\* mkdtemp; try: write loop, load_data, from_documents; finally: rmtree
build_pdf_index(files, openFaultAt, fault, rmOk) ==
    LET w == WriteFiles(files, openFaultAt)
        raised == IF w.raised # "none" THEN w.raised ELSE fault
    IN [raised |-> raised, written |-> w.written,
        tmp |-> [created |-> 1, rmtree |-> 1, rmFailed |-> ~rmOk,
                 exists |-> ~rmOk]]

BranchAlwaysBuild(snap) == "s3_fetch"
\* if any(STORAGE_DIR.iterdir()): load ... else: build
get_s3_index_branch(snap) == IF snap # "empty" THEN "s3_load" ELSE "s3_fetch"

EntryPoint == "retrieve"
EdgeSkipGenerate(node) == "END"
\* add_edge("retrieve", "generate"); add_edge("generate", END)
Edge(node) == IF node = "retrieve" THEN "generate" ELSE "END"

\* ----------------------------------------------------------------- state
VARIABLES pc, req, state, contexts, pdfResult, s3Result, tmp, calls, snapIO,
          seen, events, err, resp, snapshot, seeded, fetchCount

vars == <<pc, req, state, contexts, pdfResult, s3Result, tmp, calls, snapIO,
          seen, events, err, resp, snapshot, seeded, fetchCount>>

NoReq == [question |-> NoQuestion, has_pdf_files |-> FALSE,
          pdf_files |-> <<>>, use_s3 |-> "absent"]
NoState == [question |-> "", pdf_files |-> <<>>, use_s3 |-> "null",
            context |-> <<>>, response |-> ""]
NoResp == [code |-> 0, error |-> "", status |-> "", response |-> ""]
NoCalls == [retrieve |-> 0, generate |-> 0]
NoIO == [reads |-> 0, writes |-> 0, fetches |-> 0]

Init ==
    /\ pc = [t \in Threads |-> "idle"]
    /\ req = [t \in Threads |-> NoReq]
    /\ state = [t \in Threads |-> NoState]
    /\ contexts = [t \in Threads |-> <<>>]
    /\ pdfResult = [t \in Threads |-> <<>>]
    /\ s3Result = [t \in Threads |-> <<>>]
    /\ tmp = [t \in Threads |-> NoTmp]
    /\ calls = [t \in Threads |-> NoCalls]
    /\ snapIO = [t \in Threads |-> NoIO]
    /\ seen = [t \in Threads |-> "unchecked"]
    /\ events = [t \in Threads |-> <<>>]
    /\ err = [t \in Threads |-> "none"]
    /\ resp = [t \in Threads |-> NoResp]
    /\ snapshot \in {"empty", "nonempty"}
    /\ seeded = (snapshot = "nonempty")
    /\ fetchCount = 0

\* an exception leaves the handler: Flask answers 500
Raise(t, kind) ==
    /\ pc' = [pc EXCEPT ![t] = "done"]
    /\ err' = [err EXCEPT ![t] = kind]
    /\ resp' = [resp EXCEPT ![t] = [code |-> 500,
                                    error |-> "Internal Server Error",
                                    status |-> "", response |-> ""]]

\* POST /response up to rag_graph.invoke, for a request body drawn from D
GetResponse(t, D) ==
    /\ pc[t] = "idle"
    /\ \E d \in D :
        /\ req' = [req EXCEPT ![t] = d]
        /\ IF QuestionMissing(d.question)
           THEN /\ pc' = [pc EXCEPT ![t] = "done"]
                /\ resp' = [resp EXCEPT ![t] =
                              [code |-> 400, error |-> "No question provided",
                               status |-> "", response |-> ""]]
                /\ state' = state
           ELSE /\ pc' = [pc EXCEPT ![t] = EntryPoint]
                /\ state' = [state EXCEPT ![t] =
                              [question |-> d.question,
                               pdf_files |-> d.pdf_files,
                               use_s3 |-> UseS3Flag(d),
                               context |-> <<>>, response |-> ""]]
                /\ resp' = resp
    /\ UNCHANGED <<contexts, pdfResult, s3Result, tmp, calls, snapIO, seen,
                   events, err, snapshot, seeded, fetchCount>>

\* retrieve when its S3 branch is not taken, or up to the call of get_s3_index
RetrieveAfterUploads(t, ctxs) ==
    /\ contexts' = [contexts EXCEPT ![t] = ctxs]
    /\ IF Truthy(state[t].use_s3)
       THEN /\ pc' = [pc EXCEPT ![t] = "s3_check"]
            /\ state' = state
       ELSE /\ pc' = [pc EXCEPT ![t] = Edge("retrieve")]
            /\ state' = [state EXCEPT ![t].context = JoinContexts(ctxs)]
    /\ UNCHANGED <<err, resp>>

RetrieveUploads(t) ==
    /\ pc[t] = "retrieve"
    /\ calls' = [calls EXCEPT ![t].retrieve = @ + 1]
    /\ IF HasUploads(state[t].pdf_files)
       THEN \E openFaultAt \in 0..Len(state[t].pdf_files),
               fault \in BuildFaults, rmOk \in BOOLEAN,
               queryOk \in BOOLEAN, res \in Results :
              LET b == build_pdf_index(state[t].pdf_files, openFaultAt,
                                       fault, rmOk)
              IN /\ tmp' = [tmp EXCEPT ![t] = b.tmp]
                 /\ IF b.raised # "none"
                    THEN /\ Raise(t, b.raised)
                         /\ events' = [events EXCEPT ![t] =
                                         <<"build_pdf_index">>]
                         /\ UNCHANGED <<state, contexts, pdfResult>>
                    ELSE IF ~queryOk
                    THEN /\ Raise(t, "pdf_query")
                         /\ events' = [events EXCEPT ![t] =
                                         <<"build_pdf_index", "pdf_query">>]
                         /\ UNCHANGED <<state, contexts, pdfResult>>
                    ELSE /\ pdfResult' = [pdfResult EXCEPT ![t] = res]
                         /\ events' = [events EXCEPT ![t] =
                                         <<"build_pdf_index", "pdf_query">>]
                         /\ RetrieveAfterUploads(t,
                                AppendFragment(<<>>, UploadLabel, res))
       ELSE /\ RetrieveAfterUploads(t, <<>>)
            /\ UNCHANGED <<tmp, pdfResult, events>>
    /\ UNCHANGED <<req, s3Result, snapIO, seen, snapshot, seeded, fetchCount>>

\* get_s3_index: any(STORAGE_DIR.iterdir())
GetS3IndexCheck(t) ==
    /\ pc[t] = "s3_check"
    /\ seen' = [seen EXCEPT ![t] = snapshot]
    /\ snapIO' = [snapIO EXCEPT ![t].reads = @ + 1]
    /\ events' = [events EXCEPT ![t] = Append(@, "get_s3_index")]
    /\ pc' = [pc EXCEPT ![t] = get_s3_index_branch(snapshot)]
    /\ UNCHANGED <<req, state, contexts, pdfResult, s3Result, tmp, calls, err,
                   resp, snapshot, seeded, fetchCount>>

\* StorageContext.from_defaults + load_index_from_storage
LoadIndex(t) ==
    /\ pc[t] = "s3_load"
    /\ snapIO' = [snapIO EXCEPT ![t].reads = @ + 1]
    /\ \E ok \in BOOLEAN :
        IF ok THEN /\ pc' = [pc EXCEPT ![t] = "s3_query"]
                   /\ UNCHANGED <<err, resp>>
              ELSE Raise(t, "load_index")
    /\ UNCHANGED <<req, state, contexts, pdfResult, s3Result, tmp, calls, seen,
                   events, snapshot, seeded, fetchCount>>

\* S3Reader(...).load_data() and VectorStoreIndex.from_documents
FetchS3(t) ==
    /\ pc[t] = "s3_fetch"
    /\ fetchCount < MaxFetch
    /\ fetchCount' = fetchCount + 1
    /\ snapIO' = [snapIO EXCEPT ![t].fetches = @ + 1]
    /\ \E outcome \in {"ok", "s3_fetch", "s3_index"} :
        IF outcome = "ok" THEN /\ pc' = [pc EXCEPT ![t] = "s3_persist"]
                               /\ UNCHANGED <<err, resp>>
                          ELSE Raise(t, outcome)
    /\ UNCHANGED <<req, state, contexts, pdfResult, s3Result, tmp, calls, seen,
                   events, snapshot, seeded>>

\* index.storage_context.persist(persist_dir=STORAGE_DIR)
PersistIndex(t) ==
    /\ pc[t] = "s3_persist"
    /\ snapIO' = [snapIO EXCEPT ![t].writes = @ + 1]
    /\ \E ok \in BOOLEAN :
        IF ok THEN /\ snapshot' = "nonempty"
                   /\ pc' = [pc EXCEPT ![t] = "s3_query"]
                   /\ UNCHANGED <<err, resp>>
              ELSE /\ snapshot' \in {snapshot, "nonempty"}
                   /\ Raise(t, "persist")
    /\ UNCHANGED <<req, state, contexts, pdfResult, s3Result, tmp, calls, seen,
                   events, seeded, fetchCount>>

\* the S3 query, the append and the return of retrieve
QueryS3(t) ==
    /\ pc[t] = "s3_query"
    /\ events' = [events EXCEPT ![t] = Append(@, "s3_query")]
    /\ \E ok \in BOOLEAN, res \in Results :
        IF ok
        THEN LET ctxs == AppendFragment(contexts[t], S3Label, res)
             IN /\ s3Result' = [s3Result EXCEPT ![t] = res]
                /\ contexts' = [contexts EXCEPT ![t] = ctxs]
                /\ state' = [state EXCEPT ![t].context = JoinContexts(ctxs)]
                /\ pc' = [pc EXCEPT ![t] = Edge("retrieve")]
                /\ UNCHANGED <<err, resp>>
        ELSE /\ Raise(t, "s3_query")
             /\ UNCHANGED <<s3Result, contexts, state>>
    /\ UNCHANGED <<req, pdfResult, tmp, calls, snapIO, seen, snapshot, seeded,
                   fetchCount>>

\* generate_answer: llm.complete(prompt)
GenerateAnswer(t) ==
    /\ pc[t] = "generate"
    /\ calls' = [calls EXCEPT ![t].generate = @ + 1]
    /\ \E ok \in BOOLEAN, c \in Completions :
        IF ok
        THEN /\ state' = [state EXCEPT ![t].response = c]
             /\ pc' = [pc EXCEPT ![t] = Edge("generate")]
             /\ UNCHANGED <<err, resp>>
        ELSE /\ Raise(t, "llm")
             /\ state' = state
    /\ UNCHANGED <<req, contexts, pdfResult, s3Result, tmp, snapIO, seen,
                   events, snapshot, seeded, fetchCount>>

\* return jsonify({"status": "success", "response": result["response"]})
Respond(t) ==
    /\ pc[t] = "END"
    /\ pc' = [pc EXCEPT ![t] = "done"]
    /\ resp' = [resp EXCEPT ![t] = [code |-> 200, error |-> "",
                                    status |-> "success",
                                    response |-> state[t].response]]
    /\ UNCHANGED <<req, state, contexts, pdfResult, s3Result, tmp, calls,
                   snapIO, seen, events, err, snapshot, seeded, fetchCount>>

ResetThreads(ts) ==
    /\ pc' = [t \in Threads |-> IF t \in ts THEN "idle" ELSE pc[t]]
    /\ req' = [t \in Threads |-> IF t \in ts THEN NoReq ELSE req[t]]
    /\ state' = [t \in Threads |-> IF t \in ts THEN NoState ELSE state[t]]
    /\ contexts' = [t \in Threads |-> IF t \in ts THEN <<>> ELSE contexts[t]]
    /\ pdfResult' = [t \in Threads |-> IF t \in ts THEN <<>> ELSE pdfResult[t]]
    /\ s3Result' = [t \in Threads |-> IF t \in ts THEN <<>> ELSE s3Result[t]]
    /\ tmp' = [t \in Threads |-> IF t \in ts THEN NoTmp ELSE tmp[t]]
    /\ calls' = [t \in Threads |-> IF t \in ts THEN NoCalls ELSE calls[t]]
    /\ snapIO' = [t \in Threads |-> IF t \in ts THEN NoIO ELSE snapIO[t]]
    /\ seen' = [t \in Threads |-> IF t \in ts THEN "unchecked" ELSE seen[t]]
    /\ events' = [t \in Threads |-> IF t \in ts THEN <<>> ELSE events[t]]
    /\ err' = [t \in Threads |-> IF t \in ts THEN "none" ELSE err[t]]
    /\ resp' = [t \in Threads |-> IF t \in ts THEN NoResp ELSE resp[t]]

\* the response has been sent; the Request State is discarded
Finish(t) ==
    /\ pc[t] = "done"
    /\ ResetThreads({t})
    /\ UNCHANGED <<snapshot, seeded, fetchCount>>

\* the process is restarted: every request in flight is lost, STORAGE_DIR stays
Restart ==
    /\ \E t \in Threads : pc[t] # "idle"
    /\ ResetThreads(Threads)
    /\ UNCHANGED <<snapshot, seeded, fetchCount>>

\* what one request thread does after the body has been read
Step(t) ==
    \/ RetrieveUploads(t)
    \/ GetS3IndexCheck(t)
    \/ LoadIndex(t)
    \/ FetchS3(t)
    \/ PersistIndex(t)
    \/ QueryS3(t)
    \/ GenerateAnswer(t)
    \/ Respond(t)
    \/ Finish(t)

\* one request at a time, every request body
Next ==
    \/ \E t \in Workers : GetResponse(t, RequestJson)
    \/ \E t \in Workers : Step(t)
    \/ Restart

Spec == Init /\ [][Next]_vars

\* two requests in flight at once, bodies without uploads
NextRace ==
    \/ \E t \in Threads : GetResponse(t, RaceRequests)
    \/ \E t \in Threads : Step(t)
    \/ Restart

SpecRace == Init /\ [][NextRace]_vars


\* ---------------------------------------------------------------- claims
\* the request of thread t passed validation and has not been discarded yet
Accepted(t) == pc[t] # "idle" /\ ~QuestionMissing(req[t].question)

\* exceptions that leave retrieve
RetrieveErrors == {"write", "decode", "load", "index", "pdf_query",
                   "load_index", "s3_fetch", "s3_index", "persist", "s3_query"}

\* retrieve has returned its update for the request of thread t
RetrieveReturned(t) ==
    \/ pc[t] \in {"generate", "END"}
    \/ pc[t] = "done" /\ Accepted(t) /\ err[t] \in {"none", "llm"}

UploadFragment(t) == <<UploadLabel, "\n">> \o pdfResult[t]
S3Fragment(t) == <<S3Label, "\n">> \o s3Result[t]

\* C1: a request whose question is missing or empty is answered 400 with
\* {"error": "No question provided"} and nothing of the pipeline has run:
\* no retrieve, no generate_answer, no temporary directory, no read or write
\* of the snapshot directory, whatever pdf_files and use_s3 hold.
C1_MissingQuestionRejected ==
    \A t \in Threads :
        (pc[t] # "idle" /\ (req[t].question = NoQuestion \/ req[t].question = ""))
        => /\ pc[t] = "done"
           /\ resp[t].code = 400
           /\ resp[t].error = "No question provided"
           /\ resp[t].status = "" /\ resp[t].response = ""
           /\ calls[t] = NoCalls
           /\ tmp[t] = NoTmp
           /\ snapIO[t] = NoIO
           /\ events[t] = <<>>
           /\ err[t] = "none"

C1_Witness ==
    \E t \in Threads :
        /\ pc[t] = "done" /\ req[t].question = ""
        /\ Len(req[t].pdf_files) > 0 /\ req[t].use_s3 = "true"
        /\ resp[t].code = 400

\* C2: for an accepted request the use_s3 flag given to the pipeline is the
\* caller's value when the body has one, otherwise false when pdf_files is
\* non-empty and true when pdf_files is empty or absent.
C2_FlagDefault ==
    \A t \in Threads :
        Accepted(t) =>
            /\ req[t].use_s3 # "absent" => state[t].use_s3 = req[t].use_s3
            /\ (req[t].use_s3 = "absent" /\ Len(req[t].pdf_files) > 0)
                   => state[t].use_s3 = "false"
            /\ (req[t].use_s3 = "absent" /\ Len(req[t].pdf_files) = 0)
                   => state[t].use_s3 = "true"

C2_Witness ==
    \E t \in Threads :
        /\ Accepted(t) /\ req[t].use_s3 = "absent"
        /\ Len(req[t].pdf_files) > 0 /\ state[t].use_s3 = "false"

\* C3: with uploads present and the flag true, the context retrieve returns
\* is the "[Uploaded PDFs]" fragment, a blank line, the "[S3 Documents]"
\* fragment, and the ephemeral index is built and queried before
\* get_s3_index is entered.
C3_UploadsBeforeS3 ==
    \A t \in Threads :
        (HasUploads(state[t].pdf_files) /\ Truthy(state[t].use_s3)) =>
            /\ RetrieveReturned(t) =>
                 /\ state[t].context =
                        UploadFragment(t) \o <<"\n\n">> \o S3Fragment(t)
                 /\ events[t] = <<"build_pdf_index", "pdf_query",
                                  "get_s3_index", "s3_query">>
            /\ \A i \in DOMAIN events[t] :
                 events[t][i] = "get_s3_index" =>
                     /\ i = 3
                     /\ events[t][1] = "build_pdf_index"
                     /\ events[t][2] = "pdf_query"

C3_Witness ==
    \E t \in Threads :
        /\ pc[t] = "generate"
        /\ HasUploads(state[t].pdf_files) /\ Truthy(state[t].use_s3)
        /\ pdfResult[t] # <<>> /\ s3Result[t] # <<>>

\* C4: the context generate_answer reads is never empty, and it is exactly
\* "No context available." when the request has no uploads and the flag is
\* false, for every such request however many came before.
C4_ContextNeverEmpty ==
    \A t \in Threads :
        pc[t] = "generate" =>
            /\ Len(state[t].context) > 0
            /\ (~HasUploads(state[t].pdf_files) /\ ~Truthy(state[t].use_s3))
                   => state[t].context = Sentinel

C4_Witness ==
    \E t \in Threads :
        /\ pc[t] = "generate" /\ state[t].context = Sentinel
        /\ ~HasUploads(state[t].pdf_files) /\ state[t].use_s3 = "false"

\* C5 as stated: a temporary directory created by build_pdf_index no longer
\* exists once the call has returned or raised.
C5_TmpDirGone ==
    \A t \in Threads : tmp[t].created = 1 => ~tmp[t].exists

\* C5 amended: on every path build_pdf_index calls rmtree once on the
\* directory it created, a failure of rmtree is never raised, and the
\* directory remains only when rmtree failed.
C5_TmpDirRemovalAttempted ==
    \A t \in Threads :
        /\ (calls[t].retrieve = 1 /\ HasUploads(state[t].pdf_files))
               => tmp[t].created = 1
        /\ tmp[t].created = 1 =>
               /\ tmp[t].rmtree = 1
               /\ tmp[t].exists => tmp[t].rmFailed
        /\ err[t] # "rmtree"

C5_Witness ==
    \E t \in Threads :
        /\ err[t] = "decode"
        /\ Len(state[t].pdf_files) = 2 /\ state[t].pdf_files[1].data = "b64ok"
        /\ tmp[t].created = 1 /\ tmp[t].rmtree = 1 /\ ~tmp[t].exists

\* C6: a get_s3_index that finds the snapshot directory non-empty loads the
\* index, fetches nothing from object storage and does not rewrite the
\* snapshot; from a pre-seeded snapshot no request, concurrent or after a
\* restart, fetches.
C6_NoFetchWhenSnapshot ==
    /\ \A t \in Threads :
         seen[t] = "nonempty" =>
             /\ snapIO[t].fetches = 0
             /\ snapIO[t].writes = 0
             /\ pc[t] \notin {"s3_fetch", "s3_persist"}
    /\ seeded => (fetchCount = 0 /\ snapshot = "nonempty")

C6_Witness ==
    \E t \in Threads :
        /\ seeded /\ seen[t] = "nonempty" /\ pc[t] = "generate"
        /\ \E u \in Threads \ {t} : seen[u] = "nonempty"

\* C7 as stated: with use_s3 false and one upload whose base64 data does not
\* decode, the request still succeeds, generate_answer running on the
\* sentinel context.
C7Case(t) ==
    /\ pc[t] = "done" /\ Accepted(t)
    /\ req[t].pdf_files = <<[name |-> "paper.pdf", data |-> "b64bad"]>>
    /\ req[t].use_s3 = "false"

C7_DecodeFailureSkipped ==
    \A t \in Threads :
        C7Case(t) =>
            /\ resp[t].code = 200 /\ resp[t].status = "success"
            /\ calls[t].generate = 1
            /\ state[t].context = Sentinel

\* C7 amended: such a request is aborted: build_pdf_index raises (the decode
\* error, unless opening the file failed first) after calling rmtree, retrieve
\* returns no context, generate_answer never runs and the answer is a 500.
C7_DecodeFailureAborts ==
    \A t \in Threads :
        C7Case(t) =>
            /\ resp[t].code = 500 /\ resp[t].status # "success"
            /\ err[t] \in {"decode", "write"}
            /\ calls[t] = [retrieve |-> 1, generate |-> 0]
            /\ contexts[t] = <<>> /\ state[t].context = <<>>
            /\ tmp[t].created = 1 /\ tmp[t].rmtree = 1

C7_Witness ==
    \E t \in Threads : C7Case(t) /\ err[t] = "decode" /\ resp[t].code = 500

\* C8: from an empty snapshot directory the object-storage fetch of
\* get_s3_index is performed at most once, whatever the interleaving of
\* requests, failed fetches and restarts.
C8_FetchAtMostOnce == ~seeded => fetchCount <= 1

\* C9 as stated: the "[Uploaded PDFs]" fragment is appended only for a
\* non-empty query result, so uploads with an empty result and the flag false
\* end with the sentinel context.
C9Case(t) ==
    /\ pc[t] = "generate"
    /\ HasUploads(state[t].pdf_files) /\ pdfResult[t] = <<>>
    /\ ~Truthy(state[t].use_s3)

C9_FragmentOnlyIfNonEmpty ==
    \A t \in Threads :
        /\ C9Case(t) => state[t].context = Sentinel
        /\ (RetrieveReturned(t) /\ HasUploads(state[t].pdf_files)
              /\ pdfResult[t] = <<>>)
               => \A i \in DOMAIN contexts[t] : contexts[t][i][1] # UploadLabel

\* C9 amended: when uploads are present and the ephemeral query returns, the
\* "[Uploaded PDFs]" fragment is appended whatever the result, empty or not;
\* uploads with an empty result and the flag false end with the context
\* "[Uploaded PDFs]\n", and the sentinel arises only without uploads and
\* with the flag false.
C9_FragmentAlwaysAppended ==
    \A t \in Threads :
        /\ (RetrieveReturned(t) /\ HasUploads(state[t].pdf_files))
               => /\ Len(contexts[t]) >= 1
                  /\ contexts[t][1] = UploadFragment(t)
        /\ C9Case(t) => state[t].context = <<UploadLabel, "\n">>
        /\ (RetrieveReturned(t) /\ state[t].context = Sentinel)
               => (~HasUploads(state[t].pdf_files) /\ ~Truthy(state[t].use_s3))

C9_Witness == \E t \in Threads : C9Case(t)

\* C10: an accepted request runs retrieve once, merges its context, runs
\* generate_answer once and returns only the response field; no stage is
\* repeated or skipped, and when retrieve raises generate_answer does not run
\* and no success response is produced.
C10_LinearPipeline ==
    \A t \in Threads :
        /\ calls[t].retrieve <= 1 /\ calls[t].generate <= 1
        /\ pc[t] = "retrieve" => calls[t] = NoCalls
        /\ pc[t] \in {"s3_check", "s3_load", "s3_fetch", "s3_persist",
                      "s3_query"}
               => calls[t] = [retrieve |-> 1, generate |-> 0]
        /\ pc[t] = "generate" =>
               /\ calls[t] = [retrieve |-> 1, generate |-> 0]
               /\ state[t].context = JoinContexts(contexts[t])
               /\ state[t].response = ""
        /\ pc[t] = "END" => calls[t] = [retrieve |-> 1, generate |-> 1]
        /\ (pc[t] = "done" /\ resp[t].code = 200) =>
               /\ calls[t] = [retrieve |-> 1, generate |-> 1]
               /\ resp[t].status = "success"
               /\ resp[t].response = state[t].response
               /\ resp[t].response \in Completions
               /\ err[t] = "none"
        /\ (pc[t] = "done" /\ err[t] \in RetrieveErrors) =>
               /\ calls[t] = [retrieve |-> 1, generate |-> 0]
               /\ resp[t].code = 500 /\ resp[t].status # "success"
        /\ (pc[t] = "done" /\ Accepted(t)) => resp[t].code \in {200, 500}

C10_Witness ==
    \E t \in Threads :
        /\ pc[t] = "done" /\ resp[t].code = 200
        /\ calls[t] = [retrieve |-> 1, generate |-> 1]
        /\ resp[t].response = "answer-2"
        /\ HasUploads(state[t].pdf_files) /\ Truthy(state[t].use_s3)
====
